---- MODULE Spec2Model ----
(***************************************************************************)
(* Model of hs_m3u8.main.M3u8Downloader: the orchestrator start(), the     *)
(* manifest/key resolution get_ts_list(), the concurrent segment fetches   *)
(* _download_ts() gathered by _download(), and merge().                    *)
(*                                                                         *)
(* The code runs on one asyncio event loop: a coroutine runs without       *)
(* interruption from one await to the next, so every action below is the   *)
(* code between two awaits.                                                *)
(***************************************************************************)
EXTENDS FiniteSets, Integers, Sequences, TLC

\* ------------------------------------------------------------------ bounds
MaxSeg == 2
MaxWorkers == 1
MaxMaps == 2
MaxCalls == 2
MaxVariants == 3
MaxBw == 2

\* --------------------------------------------------------------- variables
VARIABLES
    \* constructor arguments (custom_key: a key was given; custom_iv: its iv)
    is_decrypt, max_workers, custom_key, custom_iv,
    \* what the server serves at m3u8_url
    manifest,
    \* instance attributes
    retry_count, ts_url_list, ts_path_list, ts_key, key_material,
    mp4_head_url,
    \* control: position of start(), its arguments, its result, the fetch
    \* tasks, the exception set on the future of gather
    pc, merge, del_hls, result, task, gather_exc, url,
    \* file system
    save_dir, ts_file, key_file, m3u8_file, head_file, big_ts, mp4,
    \* history of the current call of start()
    calls, passes, shortfalls, net_used, wrote, resp, ended, at_start,
    \* history of the instance: how each call returned, the order in which the
    \* fetches of the pass returned, the number of writes of each segment file
    seen, order, writes

cfg == <<is_decrypt, max_workers, custom_key, custom_iv, manifest>>
prog == <<retry_count, ts_url_list, ts_path_list, ts_key, key_material,
         mp4_head_url>>
ctl == <<pc, merge, del_hls, result, task, gather_exc, url>>
disk == <<save_dir, ts_file, key_file, m3u8_file, head_file, big_ts, mp4>>
hist == <<calls, passes, shortfalls, net_used, wrote, resp, ended,
          at_start, seen,
                   order, writes>>
vars == <<cfg, prog, ctl, disk, hist>>

\* ------------------------------------------------------------------- values
SegIdx == 0 .. (MaxSeg - 1)

\* self.retry_max_count
retry_max_count == 50

\* a slot of ts_path_list that holds None
NoPath == -1

\* file contents: kind is "nofile" (the file does not exist), "data" or
\* "empty" (zero bytes); dec counts the decryptions applied to the bytes
NoFile == [kind |-> "nofile", dec |-> 0]
Body(kind) == [kind |-> kind, dec |-> 0]

NoFiles == [i \in SegIdx |-> NoFile]
NoTasks == [i \in SegIdx |-> "none"]
NoResp == [i \in SegIdx |-> "none"]

\* self.ts_key before a key is set
NoKey == [key |-> "none", iv |-> "none"]

\* the semaphore built from max_workers: 0 stands for None (no limit)
sem == IF max_workers # 0 THEN max_workers ELSE 0

\* the limiter of each of the three request clients
m3u8_net_sem == sem
key_net_sem == 0
ts_net_sem == 0

InFlight == {i \in SegIdx : task[i] = "inflight"}
Outstanding == {i \in SegIdx : task[i] \in {"ready", "inflight"}}

Filter_reversed(s) ==
    LET f == SelectSeq(s, LAMBDA p : p # NoPath)
    IN [k \in 1 .. Len(f) |-> f[Len(f) + 1 - k]]

\* [p for p in ts_path_list if p]
Filter(s) == SelectSeq(s, LAMBDA p : p # NoPath)

\* ---------------------------------------------------------------- decryption
\* crypto.decrypt_aes_256_cbc: ciphertext decrypts to the plaintext; bytes
\* that are not the ciphertext (already decrypted, or empty) either fail the
\* padding check (raise) or come out as garbage
decrypt_aes_256_cbc(c) ==
    IF c.kind = "data" /\ c.dec = 0
    THEN {[ok |-> TRUE, data |-> [c EXCEPT !.dec = 1]]}
    ELSE {[ok |-> FALSE, data |-> c],
          [ok |-> TRUE, data |-> [c EXCEPT !.dec = c.dec + 1]]}

\* --------------------------------------------------------------------- Init
\* the lists of declared bandwidths of a master playlist
VariantLists ==
    UNION {[1 .. n -> 0 .. MaxBw] : n \in 1 .. MaxVariants}

\* a media playlist (no variants) whose key, if any, declares no iv; a
\* one-segment media playlist whose key declares an iv ("miv") or an iv that
\* is not 16 bytes long ("bad"); and a master playlist whose variants all
\* lead to the same one-segment media playlist
FlatManifests ==
    [variants : {<<>>}, nseg : 0 .. MaxSeg, hasKey : BOOLEAN,
     nmaps : 0 .. MaxMaps, iv : {"none"}]
IvManifests ==
    [variants : {<<>>}, nseg : {1}, hasKey : {TRUE}, nmaps : {0},
     iv : {"miv", "bad"}]
MasterManifests ==
    [variants : VariantLists, nseg : {1}, hasKey : {FALSE}, nmaps : {0},
     iv : {"none"}]
Manifests == FlatManifests \cup IvManifests \cup MasterManifests

\* the constructor arguments and the manifest of a run. is_decrypt and the
\* caller's key are only read when the manifest declares a key, and the worker
\* limit is varied on the playlists without key, head or variants. custom_iv
\* is the iv of the caller's M3u8Key: "civ" (16 bytes) or "none" (None or no
\* bytes); it is varied on the one-segment playlists
Configs ==
    {c \in [is_decrypt : BOOLEAN, max_workers : {0, MaxWorkers},
            custom_key : BOOLEAN, custom_iv : {"none", "civ"},
            manifest : Manifests] :
        /\ ~c.manifest.hasKey => ~c.is_decrypt /\ ~c.custom_key
        /\ c.custom_iv # "none" =>
              /\ c.custom_key
              /\ c.manifest.nseg = 1 /\ c.manifest.nmaps = 0
        /\ c.max_workers # 0 =>
              /\ ~c.manifest.hasKey
              /\ c.manifest.nmaps = 0
              /\ c.manifest.variants = <<>>}

Init ==
    /\ \E c \in Configs :
          /\ is_decrypt = c.is_decrypt
          /\ max_workers = c.max_workers
          /\ custom_key = c.custom_key
          /\ custom_iv = c.custom_iv
          /\ manifest = c.manifest
    /\ retry_count = 0
    /\ ts_url_list = <<>>
    /\ ts_path_list = <<>>
    /\ ts_key = FALSE
    /\ key_material = NoKey
    /\ mp4_head_url = FALSE
    /\ pc = "idle" /\ merge = TRUE /\ del_hls = FALSE /\ result = "none"
    /\ task = NoTasks /\ gather_exc = "none" /\ url = 0
    /\ save_dir = TRUE /\ ts_file = NoFiles /\ key_file = FALSE
    /\ m3u8_file = FALSE /\ head_file = FALSE
    /\ big_ts = [exists |-> FALSE, data |-> <<>>]
    /\ mp4 = "absent"
    /\ calls = 0 /\ passes = 0 /\ shortfalls = 0 /\ net_used = {}
    /\ wrote = FALSE /\ resp = NoResp /\ ended = <<"none", "", "">>
    /\ at_start = [mp4 |-> FALSE, dir |-> TRUE]
    /\ seen = {} /\ order = <<>> /\ writes = [i \in SegIdx |-> 0]

\* ------------------------------------------------------------------ helpers
mp4_exists_never == FALSE

\* mp4_path.exists()
mp4_exists == mp4 # "absent"

\* an exception leaves start(): nothing in start, _download or get_ts_list
\* catches it
Raise(where, what) ==
    /\ pc' = "idle"
    /\ result' = "raised"
    /\ ended' = <<"raised", where, what>>

\* what run() hands to its caller when start() returned r: run() awaits
\* start(), closes the three clients and has no return statement
RunReports(r) == "None"

\* a call of start() returned r with the given outcome
Note(outcome, r) == seen \cup {<<outcome, r, RunReports(r)>>}

RmTree_always(rm) ==
    /\ save_dir' = FALSE
    /\ ts_file' = NoFiles
    /\ key_file' = FALSE
    /\ m3u8_file' = FALSE
    /\ head_file' = FALSE

\* shutil.rmtree(save_dir) when rm holds, nothing otherwise
RmTree(rm) ==
    /\ save_dir' = IF rm THEN FALSE ELSE save_dir
    /\ ts_file' = IF rm THEN NoFiles ELSE ts_file
    /\ key_file' = IF rm THEN FALSE ELSE key_file
    /\ m3u8_file' = IF rm THEN FALSE ELSE m3u8_file
    /\ head_file' = IF rm THEN FALSE ELSE head_file

StartBody_always_rmtree(mrg, dh, p0, n0) ==
    /\ RmTree(mp4_exists /\ save_dir)
    /\ pc' = IF mp4_exists THEN "idle" ELSE "m3u8_req"
    /\ result' = IF mp4_exists THEN "True" ELSE "none"
    /\ url' = 0
    /\ ended' = IF mp4_exists THEN <<"returned", "already-complete", "">>
                ELSE <<"none", "", "">>
    /\ seen' = IF mp4_exists THEN Note("already-complete", "True") ELSE seen
    /\ passes' = IF mp4_exists THEN p0 ELSE p0 + 1
    /\ net_used' = IF mp4_exists THEN n0 ELSE n0 \cup {"m3u8"}
    /\ UNCHANGED <<big_ts, mp4>>

\* start(), from its first line to its first await (the manifest request of
\* get_ts_list) or to the early return; p0 and n0 are the passes and the
\* requests of this call so far
StartBody(mrg, dh, p0, n0) ==
    /\ RmTree(mp4_exists /\ dh /\ save_dir)
    /\ pc' = IF mp4_exists THEN "idle" ELSE "m3u8_req"
    /\ result' = IF mp4_exists THEN "True" ELSE "none"
    /\ url' = 0
    /\ ended' = IF mp4_exists THEN <<"returned", "already-complete", "">>
                ELSE <<"none", "", "">>
    /\ seen' = IF mp4_exists THEN Note("already-complete", "True") ELSE seen
    /\ passes' = IF mp4_exists THEN p0 ELSE p0 + 1
    /\ net_used' = IF mp4_exists THEN n0 ELSE n0 \cup {"m3u8"}
    /\ UNCHANGED <<big_ts, mp4>>

\* ------------------------------------------------------------------ start()
\* the caller calls start(merge, del_hls); the same instance is started again
\* only after a call that returned True
Start(mrg, dh) ==
    /\ pc = "idle"
    /\ calls < MaxCalls
    /\ calls = 0 \/ result = "True"
    /\ Outstanding = {}
    /\ merge' = mrg /\ del_hls' = dh
    /\ calls' = calls + 1
    /\ at_start' = [mp4 |-> mp4 # "absent", dir |-> save_dir]
    /\ shortfalls' = 0 /\ wrote' = FALSE /\ resp' = NoResp
    /\ StartBody(mrg, dh, 0, {})
    /\ order' = <<>>
    /\ UNCHANGED <<cfg, prog, task, gather_exc, writes>>

\* ------------------------------------------------------------ get_ts_list()
\* the variant get_ts_list recurses into: the first one with the largest
\* bandwidth above 0; -1 is the empty play_url
RECURSIVE SelectLoop(_, _, _, _)
SelectLoop(vs, k, bandwidth, play_url) ==
    IF k > Len(vs) THEN play_url
    ELSE IF vs[k] > bandwidth THEN SelectLoop(vs, k + 1, vs[k], k)
    ELSE SelectLoop(vs, k + 1, bandwidth, play_url)

SelectVariant(vs) == SelectLoop(vs, 1, 0, -1)

TooManyMaps_above_two(n) == n > 2

\* the number of segment maps get_ts_list refuses
TooManyMaps(n) == n > 1

KeyIv_manifest_first(civ, miv) == IF miv # "none" THEN miv ELSE civ

\* custom_key.iv or iv
KeyIv(civ, miv) == IF civ # "none" THEN civ ELSE miv

\* M3u8Key(key, iv): an iv that is given and is not 16 bytes long raises
M3u8Key(key, iv) == [ok |-> iv # "bad", key |-> key, iv |-> iv]

\* get_ts_list from the key block to its return, then _download up to the
\* gather: the key file and the manifest copy are saved, the lists are set
\* and one task per segment is created
ResolveTail ==
    LET n == manifest.nseg
        key_data == IF custom_key THEN "custom" ELSE "fetched"
        iv == IF custom_key THEN KeyIv(custom_iv, manifest.iv)
              ELSE manifest.iv
        km == M3u8Key(key_data, iv)
        badiv == manifest.hasKey /\ ~km.ok
        bad == manifest.hasKey /\ (~km.ok \/ n = 0)
    IN /\ key_file' = (key_file \/ manifest.hasKey)
       /\ ts_key' = (ts_key \/ (manifest.hasKey /\ km.ok))
       /\ key_material' = IF manifest.hasKey /\ km.ok
                          THEN [key |-> km.key, iv |-> km.iv]
                          ELSE key_material
       /\ order' = <<>>
       /\ m3u8_file' = (m3u8_file \/ ~bad)
       /\ wrote' = TRUE
       /\ ts_url_list' = IF bad THEN ts_url_list ELSE [k \in 1 .. n |-> k - 1]
       /\ ts_path_list' = IF bad THEN ts_path_list
                          ELSE [k \in 1 .. n |-> NoPath]
       /\ task' = IF bad THEN task
                  ELSE [i \in SegIdx |-> IF i < n THEN "ready" ELSE "none"]
       /\ gather_exc' = IF bad THEN gather_exc ELSE "none"
       /\ resp' = IF bad THEN resp ELSE NoResp
       /\ pc' = IF bad THEN "idle" ELSE "fetching"
       /\ result' = IF bad THEN "raised" ELSE result
       /\ ended' = IF badiv THEN <<"raised", "get_ts_list", "M3u8Key">>
                   ELSE IF bad THEN <<"raised", "get_ts_list", "IndexError">>
                   ELSE ended

\* the manifest request raises
ManifestFail ==
    /\ pc = "m3u8_req"
    /\ Raise("get_ts_list", "m3u8_net.get")
    /\ UNCHANGED <<cfg, prog, merge, del_hls, task, gather_exc, url, disk,
                   calls, passes,
                   shortfalls, net_used, wrote, resp, at_start, seen,
                   order, writes>>

\* the response is a master playlist: recurse into the selected variant
ManifestMaster ==
    /\ pc = "m3u8_req"
    /\ url = 0
    /\ Len(manifest.variants) > 0
    /\ url' = SelectVariant(manifest.variants)
    /\ UNCHANGED <<cfg, prog, pc, merge, del_hls, result, task, gather_exc,
                   disk, hist>>

\* the response is a media playlist with more than one segment map
ManifestMaps ==
    /\ pc = "m3u8_req"
    /\ url # -1
    /\ url = 0 => Len(manifest.variants) = 0
    /\ TooManyMaps(manifest.nmaps)
    /\ Raise("get_ts_list", "ValueError")
    /\ UNCHANGED <<cfg, prog, merge, del_hls, task, gather_exc, url, disk,
                   calls, passes,
                   shortfalls, net_used, wrote, resp, at_start, seen,
                   order, writes>>

\* the response is a media playlist whose key has to be requested
ManifestKeyReq ==
    /\ pc = "m3u8_req"
    /\ url # -1
    /\ url = 0 => Len(manifest.variants) = 0
    /\ ~TooManyMaps(manifest.nmaps)
    /\ manifest.hasKey /\ ~custom_key
    /\ mp4_head_url' = (mp4_head_url \/ manifest.nmaps = 1)
    /\ pc' = "key_req"
    /\ net_used' = net_used \cup {"key"}
    /\ UNCHANGED <<cfg, retry_count, ts_url_list, ts_path_list, ts_key,
                   key_material,
                   merge, del_hls, result, task, gather_exc, url, disk,
                   calls, passes,
                   shortfalls, wrote, resp, ended, at_start, seen,
                   order, writes>>

\* the response is a media playlist that needs no key request
ManifestOk ==
    /\ pc = "m3u8_req"
    /\ url # -1
    /\ url = 0 => Len(manifest.variants) = 0
    /\ ~TooManyMaps(manifest.nmaps)
    /\ ~manifest.hasKey \/ custom_key
    /\ mp4_head_url' = (mp4_head_url \/ manifest.nmaps = 1)
    /\ ResolveTail
    /\ UNCHANGED <<cfg, retry_count, merge, del_hls, url, save_dir, ts_file,
                   head_file, big_ts, mp4, calls, passes, shortfalls,
                   net_used, at_start, seen, writes>>

\* the key request raises
KeyFail ==
    /\ pc = "key_req"
    /\ Raise("get_ts_list", "key_net.get")
    /\ UNCHANGED <<cfg, prog, merge, del_hls, task, gather_exc, url, disk,
                   calls, passes,
                   shortfalls, net_used, wrote, resp, at_start, seen,
                   order, writes>>

\* the key request returns the key
KeyOk ==
    /\ pc = "key_req"
    /\ ResolveTail
    /\ UNCHANGED <<cfg, retry_count, mp4_head_url, merge, del_hls, url,
                   save_dir, ts_file, head_file, big_ts, mp4, calls, passes,
                   shortfalls, net_used, at_start, seen, writes>>

\* ------------------------------------------------------------ _download_ts()
ts_exists_never(i) == FALSE

\* ts_path.exists()
ts_exists(i) == ts_file[i].kind # "nofile"

\* the test on the response body that makes _download_ts give up
NoContent(kind) == kind = "absent"

Slot_first(i) == 1

\* the place of self.ts_path_list[index] in the sequence
Slot(i) == i + 1

\* the fetch stage decrypts
FetchDecrypts == ts_key /\ is_decrypt

\* the limiter of ts_net lets one more request start
SlotFree == ts_net_sem = 0 \/ Cardinality(InFlight) < ts_net_sem

\* a task runs from the top of _download_ts to its request; the loop runs the
\* tasks gather created in their order, before any response is handled
TaskStart(i) ==
    /\ task[i] = "ready"
    /\ \A j \in SegIdx : j < i => task[j] # "ready"
    /\ ts_exists(i) \/ SlotFree
    /\ task' = [task EXCEPT ![i] = IF ts_exists(i) THEN "done" ELSE "inflight"]
    /\ ts_path_list' = IF ts_exists(i)
                       THEN [ts_path_list EXCEPT ![Slot(i)] = i]
                       ELSE ts_path_list
    /\ net_used' = IF ts_exists(i) THEN net_used ELSE net_used \cup {"ts"}
    /\ order' = IF ts_exists(i) THEN Append(order, i) ELSE order
    /\ UNCHANGED <<cfg, retry_count, ts_url_list, ts_key, key_material,
                   mp4_head_url, pc,
                   merge, del_hls, result, url, disk, calls, passes,
                   shortfalls, wrote, resp, ended, at_start, seen, writes,
                   gather_exc>>

\* an exception leaves _download_ts: the task is over, and the first
\* exception of the tasks of a gather is set on the future start() waits for;
\* start() goes on waiting until the loop wakes it, the other tasks run on
TaskRaised(i, kind) ==
    /\ task' = [task EXCEPT ![i] = "raised"]
    /\ resp' = [resp EXCEPT ![i] = kind]
    /\ gather_exc' = IF pc = "fetching" /\ gather_exc = "none"
                     THEN IF kind = "raise" THEN "ts_net.get" ELSE "decrypt"
                     ELSE gather_exc
    /\ UNCHANGED <<cfg, prog, pc, merge, del_hls, result, url, disk, calls,
                   passes, shortfalls, net_used, wrote, ended, at_start,
                   seen, order, writes>>

Settling(i) ==
    /\ task[i] = "inflight"
    /\ \A j \in SegIdx : task[j] # "ready"

\* the segment request raises
TaskFail(i) ==
    /\ Settling(i)
    /\ TaskRaised(i, "raise")

\* the response arrives: no body ("absent"), a body of no bytes ("empty") or
\* a body of some bytes ("data")
TaskBody(i, kind) ==
    /\ Settling(i)
    /\ IF NoContent(kind)
       THEN /\ task' = [task EXCEPT ![i] = "done"]
            /\ resp' = [resp EXCEPT ![i] = kind]
            /\ order' = Append(order, i)
            /\ UNCHANGED <<cfg, prog, pc, merge, del_hls, result, url, disk,
                           calls, passes, shortfalls, net_used, wrote, ended,
                           at_start, seen, writes, gather_exc>>
       ELSE \E r \in (IF FetchDecrypts THEN decrypt_aes_256_cbc(Body(kind))
                      ELSE {[ok |-> TRUE, data |-> Body(kind)]}) :
              IF r.ok
              THEN /\ ts_file' = [ts_file EXCEPT ![i] = r.data]
                   /\ ts_path_list' = [ts_path_list EXCEPT ![Slot(i)] = i]
                   /\ task' = [task EXCEPT ![i] = "done"]
                   /\ resp' = [resp EXCEPT ![i] = kind]
                   /\ wrote' = TRUE
                   /\ order' = Append(order, i)
                   /\ writes' = [writes EXCEPT ![i] = @ + 1]
                   /\ UNCHANGED <<cfg, retry_count, ts_url_list, ts_key,
                                  key_material, mp4_head_url, pc, merge,
                                  del_hls, result, url, save_dir, key_file,
                                  m3u8_file, head_file, big_ts, mp4, calls,
                                  passes, shortfalls, net_used, ended,
                                  at_start, seen, gather_exc>>
              ELSE TaskRaised(i, kind)

\* the event loop is closed after start() raised: the tasks that are still
\* waiting for their response are cancelled
Shutdown ==
    /\ pc = "idle" /\ result = "raised"
    /\ Outstanding # {}
    /\ task' = [i \in SegIdx |->
                   IF i \in Outstanding THEN "cancelled" ELSE task[i]]
    /\ UNCHANGED <<cfg, prog, pc, merge, del_hls, result, gather_exc, url,
                   disk, hist>>

\* the loop wakes start(), which waits in gather, with the exception set on
\* the future: it leaves _download and start(); the tasks that have not
\* returned are not cancelled
GatherRaise ==
    /\ pc = "fetching"
    /\ gather_exc # "none"
    /\ Raise("_download_ts", gather_exc)
    /\ UNCHANGED <<cfg, prog, merge, del_hls, task, gather_exc, url, disk,
                   calls, passes, shortfalls, net_used, wrote, resp,
                   at_start, seen,
                   order, writes>>

\* ------------------------------------------------- start() after _download()
VerifyBranch_count_1_only(count_1, count_2, mrg) ==
    IF count_1 = 0 THEN "fatal"
    ELSE IF count_2 # count_1 THEN "retry"
    ELSE IF ~mrg THEN "done"
    ELSE "merge"

\* the branch start() takes on the two counts
VerifyBranch(count_1, count_2, mrg) ==
    IF count_1 = 0 \/ count_2 = 0 THEN "fatal"
    ELSE IF count_2 # count_1 THEN "retry"
    ELSE IF ~mrg THEN "done"
    ELSE "merge"

\* gather returns when every task has returned; start() drops the empty slots
\* and compares the counts
Verify ==
    /\ pc = "fetching"
    /\ \A i \in SegIdx : i < Len(ts_url_list) => task[i] = "done"
    /\ LET b == VerifyBranch(Len(ts_url_list), Len(Filter(ts_path_list)),
                             merge)
       IN /\ ts_path_list' = Filter(ts_path_list)
          /\ pc' = CASE b = "retry" -> "retrying"
                     [] b = "merge" -> "merging"
                     [] OTHER -> "idle"
          /\ result' = CASE b = "fatal" -> "None"
                         [] b = "done" -> "True"
                         [] OTHER -> result
          /\ ended' = CASE b = "fatal" -> <<"returned", "empty-source", "">>
                        [] b = "done" -> <<"returned", "success", "">>
                        [] OTHER -> ended
          /\ shortfalls' = IF b = "retry" THEN shortfalls + 1 ELSE shortfalls
          /\ seen' = CASE b = "fatal" -> Note("empty-source", "None")
                       [] b = "done" -> Note("success", "True")
                       [] OTHER -> seen
          /\ order' = IF b \in {"merge", "done"} THEN order ELSE <<>>
    /\ UNCHANGED <<cfg, retry_count, ts_url_list, ts_key, key_material,
                   mp4_head_url, merge, del_hls, task, gather_exc, url, disk,
                   calls,
                   passes, net_used, wrote, resp, at_start, writes>>

CanRetry_inclusive(rc) == rc <= retry_max_count

CanRetry_one_short(rc) == rc + 1 < retry_max_count

\* the test that lets start() call itself again
CanRetry(rc) == rc < retry_max_count

\* the counts differ: start() calls itself or returns False
Retry ==
    /\ pc = "retrying"
    /\ IF CanRetry(retry_count)
       THEN /\ retry_count' = retry_count + 1
            /\ StartBody(merge, del_hls, passes, net_used)
       ELSE /\ pc' = "idle"
            /\ result' = "False"
            /\ ended' = <<"returned", "retry-exhausted", "">>
            /\ seen' = Note("retry-exhausted", "False")
            /\ UNCHANGED <<retry_count, url, disk, passes, net_used>>
    /\ UNCHANGED <<cfg, ts_url_list, ts_path_list, ts_key, key_material,
                   mp4_head_url, merge, del_hls, task, gather_exc, calls,
                   shortfalls,
                   wrote, resp, at_start, order, writes>>

\* ------------------------------------------------------------------ merge()
\* the merge stage decrypts
MergeDecrypts == ts_key

HeadData == [idx |-> -1, kind |-> "head", dec |-> 0]

\* the loop of merge() over ts_path_list: each file is read, decrypted when
\* the merge stage decrypts, and appended to acc; the results are the
\* possible contents of the big ts file, with ok = FALSE when a decryption
\* raised and the loop stopped there
RECURSIVE Concat(_, _)
Concat(paths, acc) ==
    IF paths = <<>> THEN {[ok |-> TRUE, data |-> acc]}
    ELSE LET i == Head(paths)
             outs == IF MergeDecrypts THEN decrypt_aes_256_cbc(ts_file[i])
                     ELSE {[ok |-> TRUE, data |-> ts_file[i]]}
         IN UNION {IF r.ok
                   THEN Concat(Tail(paths),
                               Append(acc, [idx |-> i, kind |-> r.data.kind,
                                            dec |-> r.data.dec]))
                   ELSE {[ok |-> FALSE, data |-> acc]} : r \in outs}

\* what ts_to_mp4 can do: write a playable file, leave a file of size 0 and
\* return False, raise when it opens the input, raise while it writes
ToMp4Outcomes == {"ok", "bad", "raise_open", "raise_mux"}

CleanAfterMerge_any(good, dh) == dh

\* start() removes the working directory after merge() returned
CleanAfterMerge(good, dh) == good /\ dh

\* merge() from the opening of the big ts file to its return, then the rest
\* of start(); first is what is written first (the head data or nothing).
\* big_ts.data keeps the bytes last written to the file after its unlink
MergeTail(first) ==
    \E cat \in Concat(ts_path_list, first), o \in ToMp4Outcomes :
        LET raises == ~cat.ok \/ o \in {"raise_open", "raise_mux"}
            good == cat.ok /\ o = "ok"
            rm == ~raises /\ CleanAfterMerge(good, del_hls)
        IN /\ big_ts' = [exists |-> ~good, data |-> cat.data]
           /\ mp4' = IF ~cat.ok \/ o = "raise_open" THEN mp4
                     ELSE IF o = "ok" THEN "ok" ELSE "bad"
           /\ pc' = "idle"
           /\ result' = IF raises THEN "raised"
                        ELSE IF good THEN "True" ELSE "False"
           /\ ended' = IF raises
                       THEN <<"raised", "merge",
                              IF cat.ok THEN "ts_to_mp4" ELSE "decrypt">>
                       ELSE IF good THEN <<"returned", "success", "">>
                       ELSE <<"returned", "merge-failed", "">>
           /\ seen' = IF raises THEN seen
                      ELSE IF good THEN Note("success", "True")
                      ELSE Note("merge-failed", "False")
           /\ save_dir' = IF rm THEN FALSE ELSE save_dir
           /\ ts_file' = IF rm THEN NoFiles ELSE ts_file
           /\ key_file' = IF rm THEN FALSE ELSE key_file
           /\ m3u8_file' = IF rm THEN FALSE ELSE m3u8_file

\* merge() up to its first await, or to its end when there is no head
Merge ==
    /\ pc = "merging"
    /\ IF Len(ts_path_list) # Len(ts_url_list)
       THEN /\ pc' = "idle" /\ result' = "False"
            /\ ended' = <<"returned", "merge-failed", "">>
            /\ seen' = Note("merge-failed", "False")
            /\ UNCHANGED <<disk, net_used, wrote>>
       ELSE IF mp4_head_url
       THEN /\ pc' = "head_req"
            /\ big_ts' = [exists |-> FALSE, data |-> <<>>]
            /\ net_used' = net_used \cup {"head"}
            /\ UNCHANGED <<result, ended, save_dir, ts_file, key_file,
                           m3u8_file, head_file, mp4, wrote, seen>>
       ELSE /\ MergeTail(<<>>)
            /\ wrote' = TRUE
            /\ UNCHANGED <<head_file, net_used>>
    /\ UNCHANGED <<cfg, prog, merge, del_hls, task, gather_exc, url, calls,
                   passes,
                   shortfalls, resp, at_start, order, writes>>

\* the head request raises
HeadFail ==
    /\ pc = "head_req"
    /\ Raise("merge", "ts_net.get")
    /\ UNCHANGED <<cfg, prog, merge, del_hls, task, gather_exc, url, disk,
                   calls, passes,
                   shortfalls, net_used, wrote, resp, at_start, seen,
                   order, writes>>

\* the head request returns the head: it is saved and the merge goes on
HeadOk ==
    /\ pc = "head_req"
    /\ MergeTail(<<HeadData>>)
    /\ head_file' = IF save_dir' THEN TRUE ELSE FALSE
    /\ wrote' = TRUE
    /\ UNCHANGED <<cfg, prog, merge, del_hls, task, gather_exc, url, calls,
                   passes,
                   shortfalls, net_used, resp, at_start, order, writes>>

\* ---------------------------------------------------------- specification
Next ==
    \/ \E mrg \in BOOLEAN, dh \in BOOLEAN : Start(mrg, dh)
    \/ ManifestFail
    \/ ManifestMaster
    \/ ManifestMaps
    \/ ManifestKeyReq
    \/ ManifestOk
    \/ KeyFail
    \/ KeyOk
    \/ \E i \in SegIdx : TaskStart(i)
    \/ \E i \in SegIdx : TaskFail(i)
    \/ \E i \in SegIdx, kind \in {"absent", "empty", "data"} : TaskBody(i, kind)
    \/ Shutdown
    \/ GatherRaise
    \/ Verify
    \/ Retry
    \/ Merge
    \/ HeadFail
    \/ HeadOk

Spec == Init /\ [][Next]_vars

\* ------------------------------------------------------------------- claims
\* the slots of ts_path_list that hold a path
Filled == {k \in 1 .. Len(ts_path_list) : ts_path_list[k] # NoPath}
Returned(outcome) == ended = <<"returned", outcome, "">>
AllDone == \A i \in SegIdx : i < Len(ts_url_list) => task[i] = "done"

\* C1: when a pass is over, with N expected segments and M filled slots:
\* N = 0 or M = 0 ends the call with None, without retry; M = N goes to the
\* merge when merge was asked and returns True without merging otherwise;
\* 0 < M < N goes to the retry decision; and a call that ended with None
\* makes no further pass
C1_Verification ==
    [][/\ (pc = "fetching" /\ AllDone) =>
            LET N == Len(ts_url_list)
                M == Cardinality(Filled)
            IN /\ (N = 0 \/ M = 0) =>
                     /\ pc' = "idle" /\ result' = "None"
                     /\ retry_count' = retry_count /\ passes' = passes
               /\ (N > 0 /\ M = N /\ merge) => pc' = "merging"
               /\ (N > 0 /\ M = N /\ ~merge) =>
                     /\ pc' = "idle" /\ result' = "True"
                     /\ mp4' = mp4 /\ big_ts' = big_ts
               /\ (0 < M /\ M < N) =>
                     /\ pc' = "retrying" /\ retry_count' = retry_count
       /\ result = "None" =>
            /\ pc' = "idle" /\ passes' = passes
            /\ retry_count' = retry_count]_vars

C1_Witness ==
    /\ Returned("empty-source")
    /\ Len(ts_url_list) > 0
    /\ result = "None"

\* C2: on a count mismatch a new pass starts only below the retry bound;
\* retry_count then grows by one and the pass starts with the manifest
\* request, no segment fetch being in flight while the manifest and the key
\* are resolved; at the bound the call returns False; nothing else changes
\* retry_count, which stays within 0 .. retry_max_count
C2_RetryDecision ==
    /\ [](/\ 0 <= retry_count /\ retry_count <= retry_max_count
          /\ pc \in {"m3u8_req", "key_req"} => Outstanding = {})
    /\ [][/\ pc = "retrying" =>
               IF retry_count < retry_max_count
               THEN /\ retry_count' = retry_count + 1
                    /\ pc' = "m3u8_req"
                    /\ passes' = passes + 1
               ELSE /\ retry_count' = retry_count
                    /\ pc' = "idle" /\ result' = "False"
          /\ retry_count' # retry_count =>
               /\ pc = "retrying"
               /\ 0 < Len(ts_path_list)
               /\ Len(ts_path_list) < Len(ts_url_list)
          /\ (pc' = "fetching" /\ pc # "fetching") =>
               pc \in {"m3u8_req", "key_req"}
          /\ (\E i \in SegIdx : task'[i] = "inflight" /\ task[i] # "inflight")
               => pc = "fetching"]_vars

C2_Witness ==
    /\ Returned("retry-exhausted")
    /\ retry_count = retry_max_count
    /\ result = "False"

\* C3 as stated: the call that gives up has seen retry_max_count shortfalls
C3_Original ==
    Returned("retry-exhausted") => shortfalls = retry_max_count

\* C3 amended: a call makes at most retry_max_count + 1 passes, and the first
\* call of a downloader gives up after retry_max_count + 1 shortfalls in a
\* row (the first pass and retry_max_count retries)
C3_Termination ==
    /\ passes <= retry_max_count + 1
    /\ shortfalls <= passes
    /\ (Returned("retry-exhausted") /\ calls = 1) =>
          /\ shortfalls = retry_max_count + 1
          /\ passes = retry_max_count + 1
          /\ pc = "idle" /\ result = "False"

C3_Witness ==
    /\ Returned("retry-exhausted")
    /\ calls = 1
    /\ shortfalls = retry_max_count + 1

\* C4: with max_workers = k no more than k segment requests are in flight
C4_WorkerLimit ==
    max_workers # 0 => Cardinality(InFlight) <= max_workers

\* C5: an error raised in a segment fetch is caught there: no call of start()
\* ends with an exception that came out of _download_ts, and the slot of a
\* segment whose fetch raised is empty when the counts are compared
C5_FetchErrorCaught ==
    /\ ~(ended[1] = "raised" /\ ended[2] = "_download_ts")
    /\ \A i \in SegIdx : task[i] = "raised" => pc = "fetching"

\* C6: an error of the manifest or key request ends the call only when the
\* retry budget is used up
C6_ResolveErrorRetried ==
    (/\ ended[1] = "raised" /\ ended[2] = "get_ts_list"
     /\ ended[3] \in {"m3u8_net.get", "key_net.get"}) =>
        retry_count = retry_max_count

\* C7: with a key, the segment bytes in the concatenated stream have been
\* decrypted exactly once
C7_DecryptedOnce ==
    ts_key =>
        \A k \in 1 .. Len(big_ts.data) :
            big_ts.data[k].kind = "data" => big_ts.data[k].dec = 1

\* C8: a response with an empty or absent body writes no segment file and
\* leaves the slot of the segment empty
C8_NoBodyNoResult ==
    \A i \in SegIdx :
        (pc = "fetching" /\ resp[i] \in {"empty", "absent"}) =>
            /\ ~ts_exists(i)
            /\ ts_path_list[i + 1] = NoPath

\* C9: a call of start() that finds the mp4 file returns True at once: no
\* request, retry_count and the mp4 untouched; the working directory is
\* removed when del_hls was asked and it exists, and left as it is otherwise
C9_AlreadyComplete ==
    [][(calls' # calls /\ mp4 # "absent") =>
          /\ pc' = "idle" /\ result' = "True"
          /\ net_used' = {} /\ ~wrote'
          /\ retry_count' = retry_count
          /\ mp4' = mp4 /\ big_ts' = big_ts
          /\ task' = task
          /\ IF del_hls' /\ save_dir
             THEN ~save_dir' /\ ts_file' = NoFiles /\ ~key_file'
                  /\ ~m3u8_file' /\ ~head_file'
             ELSE /\ save_dir' = save_dir /\ ts_file' = ts_file
                  /\ key_file' = key_file /\ m3u8_file' = m3u8_file
                  /\ head_file' = head_file]_vars

C9_Witness ==
    /\ Returned("already-complete")
    /\ at_start.mp4 /\ at_start.dir
    /\ del_hls /\ ~save_dir

\* C10 as stated: a call after a call that returned True makes no request
\* and writes no file
C10_Original ==
    calls >= 2 => (net_used = {} /\ ~wrote)

\* C10 amended: a call after a call that returned True and left the mp4 file
\* (merged, or found it) makes no request, writes no file and returns True
C10_RerunNoOp ==
    (calls >= 2 /\ at_start.mp4) =>
        /\ net_used = {} /\ ~wrote
        /\ pc = "idle" /\ result = "True"
        /\ passes = 0

C10_Witness ==
    /\ calls = 2 /\ at_start.mp4
    /\ Returned("already-complete")
    /\ ~del_hls /\ save_dir /\ m3u8_file

\* C11: the result run() reports tells the outcomes of start() apart: two
\* calls that ended with different outcomes (already complete, success,
\* empty source, retries exhausted, merge failed) reported different results
C11_OutcomesDistinct ==
    \A a \in seen, b \in seen : a[1] # b[1] => a[3] # b[3]

\* the segment entries of the big ts file, without the head
Segs(d) == SelectSeq(d, LAMBDA e : e.idx # -1)

\* C12: whatever the order in which the fetches returned, the big ts file
\* holds the head (if there is one) first and then the segments in the order
\* 0, 1, .., and all N of them once merge() has come to its return
C12_MergeOrder ==
    /\ \A k \in 1 .. Len(big_ts.data) : big_ts.data[k].idx = -1 => k = 1
    /\ \A k \in 1 .. Len(Segs(big_ts.data)) : Segs(big_ts.data)[k].idx = k - 1
    /\ ((Returned("success") /\ merge) \/ Returned("merge-failed")) =>
          /\ Len(Segs(big_ts.data)) = Len(ts_url_list)
          /\ mp4_head_url <=> (big_ts.data[1].idx = -1)

C12_Witness ==
    /\ Returned("success") /\ merge
    /\ order = <<1, 0>>
    /\ Len(big_ts.data) = 2
    /\ big_ts.data[1].idx = 0 /\ big_ts.data[2].idx = 1

\* C13: a segment whose file exists is taken as downloaded without a request
\* (its task ends at once with its slot set and no file touched); a request
\* is only sent for a segment without file, a segment file is only written
\* where there was none, and no segment file is written twice
C13_FetchOnce ==
    /\ [](\A i \in SegIdx : writes[i] <= 1)
    /\ [][\A i \in SegIdx :
            /\ (task[i] = "ready" /\ task'[i] # "ready"
                /\ ts_file[i].kind # "nofile") =>
                  /\ task'[i] = "done"
                  /\ ts_path_list'[i + 1] = i
                  /\ ts_file' = ts_file /\ net_used' = net_used
                  /\ resp' = resp
            /\ (task'[i] = "inflight" /\ task[i] # "inflight") =>
                  ts_file[i].kind = "nofile"
            /\ (ts_file'[i] # ts_file[i] /\ ts_file'[i].kind # "nofile") =>
                  ts_file[i].kind = "nofile"]_vars

C13_Witness ==
    /\ pc = "fetching" /\ passes >= 2
    /\ task[0] = "done" /\ resp[0] = "none"
    /\ writes[0] = 1 /\ ts_path_list[1] = 0
    /\ task[1] = "inflight"

\* C14: a media playlist with more than one segment map ends the call with
\* an error out of get_ts_list in its first pass: no segment task is created,
\* no segment request is sent, nothing is retried and no further pass starts
C14_TooManyMapsFatal ==
    /\ [](manifest.nmaps > 1 =>
            /\ task = NoTasks /\ "ts" \notin net_used
            /\ passes <= 1 /\ retry_count = 0
            /\ result \in {"none", "raised"}
            /\ pc \in {"idle", "m3u8_req"})
    /\ [][(manifest.nmaps > 1 /\ pc = "m3u8_req") =>
             /\ pc' = "idle" /\ result' = "raised"
             /\ ended'[1] = "raised" /\ ended'[2] = "get_ts_list"]_vars

C14_Witness ==
    /\ manifest.nmaps = 2
    /\ ended = <<"raised", "get_ts_list", "ValueError">>
    /\ passes = 1 /\ pc = "idle"

\* C15: at a master playlist get_ts_list recurses into one of its variants,
\* the first of those that declare the largest bandwidth
C15_LargestVariant ==
    (Len(manifest.variants) > 0 /\ url # 0) =>
        /\ url \in 1 .. Len(manifest.variants)
        /\ \A j \in 1 .. Len(manifest.variants) :
              manifest.variants[j] <= manifest.variants[url]
        /\ \A j \in 1 .. (url - 1) :
              manifest.variants[j] < manifest.variants[url]

\* C16: when the manifest declares a key: with a key of the caller no key
\* request is sent and the key material is the caller's key with the caller's
\* iv if it has one and the manifest's iv otherwise; without, the key is
\* requested once in each resolution and the key material is the fetched key
\* with the manifest's iv
C16_KeyMaterial ==
    /\ [](/\ custom_key => ("key" \notin net_used /\ pc # "key_req")
          /\ ts_key =>
               /\ manifest.hasKey
               /\ custom_key =>
                    /\ key_material.key = "custom"
                    /\ key_material.iv = IF custom_iv # "none" THEN custom_iv
                                         ELSE manifest.iv
               /\ ~custom_key =>
                    /\ key_material.key = "fetched"
                    /\ key_material.iv = manifest.iv)
    /\ [][/\ (pc' = "fetching" /\ pc # "fetching" /\ manifest.hasKey) =>
               /\ ts_key'
               /\ pc = IF custom_key THEN "m3u8_req" ELSE "key_req"
          /\ (pc' = "key_req" /\ pc # "key_req") => pc = "m3u8_req"]_vars

C16_Witness ==
    /\ pc = "fetching" /\ ts_key
    /\ custom_key /\ custom_iv = "none" /\ manifest.iv = "miv"
    /\ key_material = [key |-> "custom", iv |-> "miv"]
    /\ net_used = {"m3u8", "ts"}

\* C17: when the conversion to mp4 reports failure the call returns False at
\* once: no further pass, retry_count as it was, the big ts file left, the
\* working directory and its files left even with del_hls; when the merge
\* succeeds the big ts file is gone
C17_MergeFailureTerminal ==
    /\ [](/\ Returned("merge-failed") =>
               /\ pc = "idle" /\ result = "False"
               /\ big_ts.exists /\ save_dir
          /\ (Returned("success") /\ merge) => ~big_ts.exists)
    /\ [][/\ (pc \in {"merging", "head_req"}
              /\ ended' = <<"returned", "merge-failed", "">>) =>
               /\ retry_count' = retry_count /\ passes' = passes
               /\ save_dir' = save_dir /\ ts_file' = ts_file
               /\ key_file' = key_file /\ m3u8_file' = m3u8_file
          /\ Returned("merge-failed") =>
               /\ passes' = passes /\ retry_count' = retry_count
               /\ pc' = "idle"]_vars

C17_Witness ==
    /\ Returned("merge-failed")
    /\ del_hls /\ save_dir /\ m3u8_file
    /\ big_ts.exists /\ Len(big_ts.data) = Len(ts_url_list)
    /\ result = "False"

\* C18: start() is out of its fetch phase only when every fetch it launched
\* has settled, by success, by an empty result or by an error
C18_Barrier ==
    pc # "fetching" => Outstanding = {}

\* C19: in a pass the descriptors are 0 .. N-1 and ts_path_list has N slots,
\* all empty when the pass starts; a filled slot holds the path of its own
\* segment, whose fetch is over and whose file is there; a slot is written
\* once, from empty, in the step that ends the fetch of its segment, and that
\* step writes no other slot
C19_SlotDiscipline ==
    /\ [](pc = "fetching" =>
            /\ Len(ts_url_list) = manifest.nseg
            /\ Len(ts_path_list) = Len(ts_url_list)
            /\ \A k \in 1 .. Len(ts_url_list) : ts_url_list[k] = k - 1
            /\ \A k \in 1 .. Len(ts_path_list) :
                  ts_path_list[k] # NoPath =>
                     /\ ts_path_list[k] = k - 1
                     /\ task[k - 1] = "done"
                     /\ ts_file[k - 1].kind # "nofile")
    /\ [][/\ (pc' = "fetching" /\ pc # "fetching") =>
               \A k \in 1 .. Len(ts_path_list') : ts_path_list'[k] = NoPath
          /\ pc' = pc =>
               /\ Len(ts_path_list') = Len(ts_path_list)
               /\ \A k \in 1 .. Len(ts_path_list) :
                     ts_path_list'[k] # ts_path_list[k] =>
                        /\ ts_path_list[k] = NoPath
                        /\ ts_path_list'[k] = k - 1
                        /\ task[k - 1] \in {"ready", "inflight"}
                        /\ task'[k - 1] = "done"
                        /\ ts_file'[k - 1].kind # "nofile"
                        /\ \A j \in 1 .. Len(ts_path_list) :
                              j # k => ts_path_list'[j] = ts_path_list[j]]_vars

C19_Witness ==
    /\ pc = "fetching"
    /\ Len(ts_path_list) = 2
    /\ ts_path_list = <<NoPath, 1>>
    /\ task[0] = "inflight" /\ task[1] = "done"
    /\ writes[1] = 1

\* C20: the working directory is only removed by a step of start() that
\* leaves the mp4 file in place, returns True and had del_hls; a call that
\* ended without merge, with a failed merge, with an empty source, with the
\* retries used up or with an error has left the directory as it found it
C20_CleanupOnlyWithOutput ==
    /\ [][(save_dir /\ ~save_dir') =>
             /\ mp4' # "absent" /\ del_hls'
             /\ pc' = "idle" /\ result' = "True"]_vars
    /\ []((\/ Returned("empty-source")
           \/ Returned("retry-exhausted")
           \/ Returned("merge-failed")
           \/ (Returned("success") /\ ~merge)
           \/ ended[1] = "raised") => save_dir = at_start.dir)

C20_Witness ==
    /\ Returned("success") /\ merge /\ del_hls
    /\ at_start.dir /\ ~save_dir
    /\ mp4 = "ok" /\ ts_file = NoFiles

====
